---- MODULE Spec2Model ----
(***************************************************************************)
(* Model of scripts/upload_results.py: the log tokenizer parse_log_file    *)
(* and the window scanner / assembler parse_upload_attempt.                *)
(*                                                                         *)
(* Text.  A log line is a sequence of tokens.  A token is a piece of text  *)
(* that no test of the program looks inside: a keyword phrase of the       *)
(* program ("File/Directory:", "Failed", " to upload", ...), one decimal   *)
(* digit, one blank, one punctuation character, a word, a leading syslog   *)
(* timestamp, a run of 64 lowercase hex characters.  `x in line` of the    *)
(* program is "x occurs as a contiguous run of tokens of line", and each   *)
(* regular expression is matched token by token.  The trailing newline of  *)
(* a line is not represented: `.` and `$` of the program's expressions     *)
(* stop in front of it.                                                    *)
(*                                                                         *)
(* Values.  Python's None is the empty tuple and a present value v is the  *)
(* one-element tuple <<v>>.  Line indices are the program's (from 0).      *)
(***************************************************************************)
EXTENDS Integers, Sequences, FiniteSets, TLC

None == <<>>
Some(v) == <<v>>

\* ------------------------------------------------------------------ text

WS == {" "}
DIGITS == {"0", "1", "2", "3", "4", "5", "6", "7", "8", "9"}
\* each of these stands for one run of exactly 64 characters of [a-f0-9]
HEX64 == {"H64a", "H64b", "H64c"}
\* short runs of [a-f0-9] that are not digits
HEXWORDS == {"abc", "def"}
HEX == DIGITS \cup HEXWORDS \cup HEX64
\* texts matched by ^\w{3}\s+\d{1,2}\s+\d{2}:\d{2}:\d{2}
TIMESTAMPS == {"Nov  5 16:05:00", "Nov  5 16:07:30"}
DIVIDER == "=========================================="
Q == "\""

DigitVal(t) ==
  CASE t = "0" -> 0 [] t = "1" -> 1 [] t = "2" -> 2 [] t = "3" -> 3
    [] t = "4" -> 4 [] t = "5" -> 5 [] t = "6" -> 6 [] t = "7" -> 7
    [] t = "8" -> 8 [] t = "9" -> 9

\* int(text) for a text of decimal digits
RECURSIVE IntOf(_)
IntOf(ds) ==
  IF ds = <<>> THEN 0
  ELSE 10 * IntOf(SubSeq(ds, 1, Len(ds) - 1)) + DigitVal(ds[Len(ds)])

\* `tok in line` for a one-token text
In(tok, line) == \E k \in DOMAIN line : line[k] = tok

\* `text in line`
Contains(line, text) ==
  \E k \in 1..(Len(line) - Len(text) + 1) :
     SubSeq(line, k, k + Len(text) - 1) = text

\* str.strip(): leading and trailing blanks removed
RECURSIVE Strip(_)
Strip(s) ==
  IF s = <<>> THEN s
  ELSE IF s[1] \in WS THEN Strip(Tail(s))
  ELSE IF s[Len(s)] \in WS THEN Strip(SubSeq(s, 1, Len(s) - 1))
  ELSE s

\* end of the longest run of tokens of class c that starts at p (p-1: no run)
RunEnd(line, p, c) ==
  CHOOSE q \in (p - 1)..Len(line) :
     /\ \A k \in p..q : line[k] \in c
     /\ (q = Len(line) \/ line[q + 1] \notin c)

\* pattern elements: exactly one token of c, one or more (c+), any number (c*)
One(c) == [k |-> "one", c |-> c]
Lit(t) == [k |-> "one", c |-> {t}]
Plus(c) == [k |-> "plus", c |-> c]
Star(c) == [k |-> "star", c |-> c]

\* where element e, tried at p, ends; -2 when it does not match there
ElemEnd(line, p, e) ==
  IF e.k = "one"
    THEN IF p <= Len(line) /\ line[p] \in e.c THEN p ELSE -2
    ELSE LET q == RunEnd(line, p, e.c)
         IN  IF e.k = "plus" /\ q < p THEN -2 ELSE q

\* the pattern matched at p: None, or Some(the end index of each element).
\* Repetitions are greedy; no expression of the program follows a
\* repetition by text of the same class, so greedy is the only match.
RECURSIVE MatchAt(_, _, _)
MatchAt(line, p, pat) ==
  IF pat = <<>> THEN Some(<<>>)
  ELSE LET q == ElemEnd(line, p, Head(pat))
       IN  IF q = -2 THEN None
           ELSE LET rest == MatchAt(line, q + 1, Tail(pat))
                IN  IF rest = None THEN None ELSE Some(<<q>> \o rest[1])

\* re.search: the leftmost match; None, or Some(<<index before the match>>
\* \o the end index of each element)
Search(line, pat) ==
  LET hits == {p \in 1..Len(line) : MatchAt(line, p, pat) # None}
  IN  IF hits = {} THEN None
      ELSE LET p == CHOOSE x \in hits : \A y \in hits : x <= y
           IN  Some(<<p - 1>> \o MatchAt(line, p, pat)[1])

\* the text a match m of Search gives to pattern elements a+1 .. b
Group(line, m, a, b) == SubSeq(line, m[1][a + 1] + 1, m[1][b + 1])

\* ------------------------------------------------------------ extractors

\* 'File/Directory:' in line, then re.search(r'File/Directory:\s*(.+)$'),
\* then .strip().  (.+) needs one character in front of the newline; when
\* only blanks follow the label, \s* gives the last blank back to (.+) and
\* the stripped name is the empty string.
FileNameMatch(line) ==
  LET hits == {p \in 1..(Len(line) - 1) : line[p] = "File/Directory:"}
  IN  IF hits = {} THEN None
      ELSE LET p == CHOOSE x \in hits : \A y \in hits : x <= y
           IN  Some(Strip(SubSeq(line, p + 1, Len(line))))

\* 'Size:' in line and 'KB' in line, then re.search(r'Size:\s*(\d+)KB'), int()
SizeMatch(line) ==
  IF ~(In("Size:", line) /\ In("KB", line)) THEN None
  ELSE LET m == Search(line, <<Lit("Size:"), Star(WS), Plus(DIGITS), Lit("KB")>>)
       IN  IF m = None THEN None ELSE Some(IntOf(Group(line, m, 2, 3)))

\* 'Successfully uploaded' in line and 'Failed' not in line
SuccessLine(line) == In("Successfully uploaded", line) /\ ~In("Failed", line)

\* 'At address:' in line, then re.search(r'At address:\s*([a-f0-9]+)')
AddressMatch(line) ==
  IF ~In("At address:", line) THEN None
  ELSE LET m == Search(line, <<Lit("At address:"), Star(WS), Plus(HEX)>>)
       IN  IF m = None THEN None ELSE Some(Group(line, m, 2, 3))

\* Path(file_name).name: the last component, trailing separators dropped
RECURSIVE PathName(_)
PathName(name) ==
  IF name = <<>> THEN name
  ELSE IF name[Len(name)] = "/" THEN PathName(SubSeq(name, 1, Len(name) - 1))
  ELSE LET cuts == {k \in DOMAIN name : name[k] = "/"}
       IN  IF cuts = {} THEN name
           ELSE LET c == CHOOSE x \in cuts : \A y \in cuts : y <= x
                IN  SubSeq(name, c + 1, Len(name))

\* basename = Path(file_name).name if '/' in file_name else file_name
Basename(name) == IF In("/", name) THEN PathName(name) ELSE name

\* f'"{basename}"' in line and '": "' in line, then
\* re.search(r'": "([a-f0-9]{64})"')
PairMatch(line, name) ==
  IF ~(/\ Contains(line, <<Q>> \o Basename(name) \o <<Q>>)
       /\ Contains(line, <<Q, ":", " ", Q>>)) THEN None
  ELSE LET m == Search(line, <<Lit(Q), Lit(":"), Lit(" "), Lit(Q), One(HEX64), Lit(Q)>>)
       IN  IF m = None THEN None ELSE Some(Group(line, m, 4, 5))

\* 'Elapsed time:' in line, then
\* re.search(r'Elapsed time:\s*([\d.]+)\s*seconds'): the matched text
ElapsedMatch(line) ==
  IF ~In("Elapsed time:", line) THEN None
  ELSE LET m == Search(line, <<Lit("Elapsed time:"), Star(WS),
                               Plus(DIGITS \cup {"."}), Star(WS), Lit("seconds")>>)
       IN  IF m = None THEN None ELSE Some(Group(line, m, 2, 3))

\* whether float(text) returns (text of digits and dots): at most one dot
\* and at least one digit; otherwise float raises ValueError
FloatParses(text) ==
  /\ Cardinality({k \in DOMAIN text : text[k] = "."}) <= 1
  /\ \E k \in DOMAIN text : text[k] \in DIGITS

\* trailing zeros of a fraction do not change the value
RECURSIVE DropZeros(_)
DropZeros(ds) ==
  IF ds # <<>> /\ ds[Len(ds)] = "0" THEN DropZeros(SubSeq(ds, 1, Len(ds) - 1))
  ELSE ds

\* float(text) as <<integer part, digits of the fraction>>
FloatOf(text) ==
  LET dots == {k \in DOMAIN text : text[k] = "."}
      d == IF dots = {} THEN Len(text) + 1 ELSE CHOOSE k \in dots : TRUE
  IN  <<IntOf(SubSeq(text, 1, d - 1)), DropZeros(SubSeq(text, d + 1, Len(text)))>>

\* mutant of FailureLine: the failure phrase alone, whatever the file name
FailureLine_AnyName(line, fname) == Contains(line, <<"Failed", " to upload">>)

\* 'Failed to upload' in line and file_name and file_name in line
FailureLine(line, fname) ==
  /\ Contains(line, <<"Failed", " to upload">>)
  /\ fname # None /\ fname[1] # <<>>
  /\ Contains(line, fname[1])

\* 'Processing estimated total' in line, then
\* re.search(r'Processing estimated total (\d+) chunks'), int()
EstimatedMatch(line) ==
  IF ~In("Processing estimated total", line) THEN None
  ELSE LET m == Search(line, <<Lit("Processing estimated total"), Lit(" "),
                               Plus(DIGITS), Lit(" "), Lit("chunks")>>)
       IN  IF m = None THEN None ELSE Some(IntOf(Group(line, m, 2, 3)))

\* 'Starting upload of' in line and 'Merkle Tree' in line
StartingGuard(line) == In("Starting upload of", line) /\ In("Merkle Tree", line)

\* re.search(r'Starting upload of (\d+) chunks in \d+ Merkle Tree'), int()
StartingMatch(line) ==
  LET m == Search(line, <<Lit("Starting upload of"), Lit(" "), Plus(DIGITS),
                          Lit(" "), Lit("chunks"), Lit(" in"), Lit(" "),
                          Plus(DIGITS), Lit(" "), Lit("Merkle Tree")>>)
  IN  IF m = None THEN None ELSE Some(IntOf(Group(line, m, 2, 3)))

\* 'Encrypted' in line and 'chunks in' in line, then
\* re.search(r'Encrypted (\d+)/(\d+) chunks in'), int(group 2)
EncryptedMatch(line) ==
  IF ~(In("Encrypted", line) /\ Contains(line, <<"chunks", " in">>)) THEN None
  ELSE LET m == Search(line, <<Lit("Encrypted"), Lit(" "), Plus(DIGITS), Lit("/"),
                               Plus(DIGITS), Lit(" "), Lit("chunks"), Lit(" in")>>)
       IN  IF m = None THEN None ELSE Some(IntOf(Group(line, m, 4, 5)))

\* re.search(r'\(\d+/\d+\) Chunk stored at: ([a-f0-9]{64})')
ChunkStoredMatch(line) ==
  LET m == Search(line, <<Lit("("), Plus(DIGITS), Lit("/"), Plus(DIGITS), Lit(")"),
                          Lit(" Chunk stored at: "), One(HEX64)>>)
  IN  IF m = None THEN None ELSE Some(line[m[1][8]])

\* re.search(r'Retry succeeded for chunk: ([a-f0-9]{64})')
RetryMatch(line) ==
  LET m == Search(line, <<Lit("Retry succeeded for chunk: "), One(HEX64)>>)
  IN  IF m = None THEN None ELSE Some(line[m[1][3]])

\* 'chunks already exist on the network' in line and 'nothing to upload' in line
AlreadyExistLine(line) ==
  /\ Contains(line, <<"chunks", " already exist on the network">>)
  /\ In("nothing to upload", line)

\* '==========================================' in line
HasDivider(line) == In(DIVIDER, line)

\* mutant of TimestampMatch: the expression is searched for anywhere in the line
TimestampMatch_Anywhere(line) ==
  LET hits == {k \in DOMAIN line : line[k] \in TIMESTAMPS}
  IN  IF hits = {} THEN None
      ELSE LET k == CHOOSE x \in hits : \A y \in hits : x <= y
           IN  Some(SubSeq(line, k, k))

\* re.match(r'^(\w{3}\s+\d{1,2}\s+\d{2}:\d{2}:\d{2})', line)
TimestampMatch(line) ==
  IF line # <<>> /\ line[1] \in TIMESTAMPS THEN Some(SubSeq(line, 1, 1)) ELSE None

\* ----------------------------------------------------------------- state

VARIABLES
  lines,                        \* parse_log_file: f.readlines()
  payment_type,                 \* 'single-node' or 'merkle'
  i,                            \* parse_log_file: the index of its while loop
  attempts,                     \* parse_log_file: the list it returns
  origins,                      \* history: the banner index of each element of attempts
  pc,                           \* main: "main", "open", "exited"; parse_log_file and
                                \* parse_upload_attempt: "tokenize", "scan", "assemble",
                                \* "returned", "done", "crashed" (an exception is on its
                                \* way up); format_chunks: "format", "formatted";
                                \* count_repair_entries: "count", "counted"
  start_idx,                    \* parse_upload_attempt: its argument
  scan_i,                       \* parse_upload_attempt: the index of its for loop
  file_name, size_kb, success, address, duration_seconds, duration_found_at,
  start_time, total_chunks, successful_chunk_addresses, all_chunks_already_exist,
  attempt,                      \* parse_log_file: what parse_upload_attempt returned
                                \* (format_chunks: its argument)
  delegated,                    \* history: the start index of each call of parse_upload_attempt
  log_file,                     \* main: the file at log_path: "readable", "missing", "unreadable"
  printed,                      \* main: what has been written to the terminal
  exit_status,                  \* main: the exit status of the process, once it has ended
  chunks,                       \* print_all_attempts_table: what format_chunks returned
  repair_files,                 \* count_repair_entries: the repair CSV files, in glob order
  file_idx,                     \* count_repair_entries: how many of them have been counted
  total_success, total_failed, total_success_with_cost, files_processed,
  repair_success, repair_failed, repair_paid
                                \* get_host_summary: host_summaries[host_name], the
                                \* repair counts of the host

locals == <<file_name, size_kb, success, address, duration_seconds,
            duration_found_at, start_time, total_chunks,
            successful_chunk_addresses, all_chunks_already_exist>>
main_vars == <<log_file, printed, exit_status>>
repair_vars == <<repair_files, file_idx, total_success, total_failed,
                 total_success_with_cost, files_processed,
                 repair_success, repair_failed, repair_paid>>
\* the variables parse_log_file and parse_upload_attempt do not touch
outside == <<main_vars, chunks, repair_vars>>
vars == <<lines, payment_type, i, attempts, origins, pc, start_idx, scan_i,
          locals, attempt, delegated, outside>>

PAYMENT_TYPES == {"single-node", "merkle"}
WINDOW_LINES == 10000
POST_DURATION_LINES == 5
BANNER_GRACE_LINES == 2

\* lines[n] of the program
Line(n) == lines[n + 1]

Min(a, b) == IF a <= b THEN a ELSE b

\* Python truth of an Optional[str]: neither None nor ''
Truthy(o) == o # None /\ o[1] # <<>>

\* ------------------------------------------------- parse_upload_attempt

\* mutant of Recognized: the line after the divider is not looked at
Recognized_AnyDivider(ls, n) == HasDivider(ls[n + 1])

\* the record boundary test of parse_log_file at index n
Recognized(ls, n) ==
  /\ HasDivider(ls[n + 1])
  /\ n + 1 < Len(ls)
  /\ In("Uploading Content", ls[n + 2])

\* mutant of MaxLines: the end of the log does not limit the window
MaxLines_PastEnd(start, n) == start + WINDOW_LINES

MaxLines(start, n) == Min(start + WINDOW_LINES, n)

\* mutant of NextFileName: a later file name line overwrites the name
NextFileName_Overwrite(cur, line) ==
  IF In("File/Directory:", line)
    THEN (IF FileNameMatch(line) # None THEN FileNameMatch(line) ELSE cur)
    ELSE cur

NextFileName(cur, line) ==
  IF cur = None /\ In("File/Directory:", line)
    THEN (IF FileNameMatch(line) # None THEN FileNameMatch(line) ELSE cur)
    ELSE cur

NextSize(cur, line) ==
  IF cur = None /\ SizeMatch(line) # None THEN SizeMatch(line) ELSE cur

\* the success flag after the success test; the failure test comes later
AfterSuccessTest(cur, line) == IF SuccessLine(line) THEN TRUE ELSE cur

AfterPrimaryAddress(cur, line) ==
  IF cur = None /\ AddressMatch(line) # None THEN AddressMatch(line) ELSE cur

\* mutant of AfterSecondaryAddress: the quoted name on the line is not compared
\* with the file name
AfterSecondaryAddress_AnyName(cur, fname, line) ==
  LET m == Search(line, <<Lit(Q), Lit(":"), Lit(" "), Lit(Q), One(HEX64), Lit(Q)>>)
  IN  IF cur = None /\ Truthy(fname) /\ m # None THEN Some(Group(line, m, 4, 5)) ELSE cur

\* fname is the file name as this line leaves it
AfterSecondaryAddress(cur, fname, line) ==
  IF cur = None /\ Truthy(fname) /\ PairMatch(line, fname[1]) # None
    THEN PairMatch(line, fname[1])
    ELSE cur

\* whether this line makes the duration extractor call float()
DurationCaptured(cur, line) == cur = None /\ ElapsedMatch(line) # None

\* mutant of AfterFailureTest: the failure test is left out
AfterFailureTest_Skipped(cur, fname, line) == cur

AfterFailureTest(cur, fname, line) == IF FailureLine(line, fname) THEN FALSE ELSE cur

\* mutant of NextTotalChunks: the fallback line overwrites a total already set
NextTotalChunks_FallbackOverwrites(cur, ptype, line) ==
  IF ptype = "single-node"
    THEN (IF cur = None /\ EstimatedMatch(line) # None THEN EstimatedMatch(line) ELSE cur)
  ELSE IF ptype = "merkle"
    THEN (IF StartingGuard(line)
            THEN (IF StartingMatch(line) # None THEN StartingMatch(line) ELSE cur)
          ELSE IF EncryptedMatch(line) # None THEN EncryptedMatch(line)
          ELSE cur)
  ELSE cur

\* mutant of NextTotalChunks: in single-node mode a later line overwrites the total
NextTotalChunks_EstimatedOverwrites(cur, ptype, line) ==
  IF ptype = "single-node"
    THEN (IF EstimatedMatch(line) # None THEN EstimatedMatch(line) ELSE cur)
  ELSE IF ptype = "merkle"
    THEN (IF StartingGuard(line)
            THEN (IF StartingMatch(line) # None THEN StartingMatch(line) ELSE cur)
          ELSE IF cur = None /\ EncryptedMatch(line) # None THEN EncryptedMatch(line)
          ELSE cur)
  ELSE cur

NextTotalChunks(cur, ptype, line) ==
  IF ptype = "single-node"
    THEN (IF cur = None /\ EstimatedMatch(line) # None THEN EstimatedMatch(line) ELSE cur)
  ELSE IF ptype = "merkle"
    THEN (IF StartingGuard(line)
            THEN (IF StartingMatch(line) # None THEN StartingMatch(line) ELSE cur)
          ELSE IF cur = None /\ EncryptedMatch(line) # None THEN EncryptedMatch(line)
          ELSE cur)
  ELSE cur

\* mutant of NextChunkAddresses: chunks that succeeded on retry are not counted
NextChunkAddresses_RetryIgnored(cur, line) ==
  cur \cup (IF ChunkStoredMatch(line) # None THEN {ChunkStoredMatch(line)[1]} ELSE {})

NextChunkAddresses(cur, line) ==
  cur \cup (IF ChunkStoredMatch(line) # None THEN {ChunkStoredMatch(line)[1]} ELSE {})
      \cup (IF RetryMatch(line) # None THEN {RetryMatch(line)[1]} ELSE {})

\* mutant of NextAlreadyExist: the marker line is not acted on
NextAlreadyExist_Ignored(cur, line) == cur

NextAlreadyExist(cur, line) == IF AlreadyExistLine(line) THEN TRUE ELSE cur

\* the two break tests at the end of the loop body, for the line at idx
\* mutant of DurationBreak: one more line is scanned after the duration
DurationBreak_OneMore(found_at, idx) ==
  found_at # None /\ idx > found_at[1] + POST_DURATION_LINES + 1

DurationBreak(found_at, idx) ==
  found_at # None /\ idx > found_at[1] + POST_DURATION_LINES

\* mutant of DividerBreak: any divider after the banner line ends the window
DividerBreak_NoGrace(idx, start, line) == idx > start /\ HasDivider(line)

DividerBreak(idx, start, line) ==
  idx > start + BANNER_GRACE_LINES /\ HasDivider(line)

\* mutant of Complete: a record also needs an address
Complete_NeedsAddress(fname, size, duration, stime) ==
  Truthy(fname) /\ size # None /\ duration # None /\ Truthy(stime) /\ address # None

\* mutant of Complete: a record also needs the success flag
Complete_NeedsSuccess(fname, size, duration, stime) ==
  Truthy(fname) /\ size # None /\ duration # None /\ Truthy(stime) /\ success

\* the test in front of the return of a record
Complete(fname, size, duration, stime) ==
  Truthy(fname) /\ size # None /\ duration # None /\ Truthy(stime)

\* mutant of SuccessfulChunks: the count of addresses is not capped
SuccessfulChunks_NoCap(total, all_exist, addresses) ==
  IF total # None
    THEN (IF all_exist THEN total ELSE Some(Cardinality(addresses)))
    ELSE None

SuccessfulChunks(total, all_exist, addresses) ==
  IF total # None
    THEN (IF all_exist THEN total
          ELSE Some(Min(Cardinality(addresses), total[1])))
    ELSE None

UploadAttempt(fname, size, succ, addr, duration, stime, total, successful) ==
  [file_name |-> fname, size_kb |-> size, success |-> succ, address |-> addr,
   duration_seconds |-> duration, start_time |-> stime,
   total_chunks |-> total, successful_chunks |-> successful]

\* what parse_upload_attempt returns from the state its loop left
ReturnValue ==
  IF Complete(file_name, size_kb, duration_seconds, start_time)
    THEN Some(UploadAttempt(file_name[1], size_kb[1], success, address,
                            duration_seconds[1], start_time[1], total_chunks,
                            SuccessfulChunks(total_chunks, all_chunks_already_exist,
                                             successful_chunk_addresses)))
    ELSE None

\* --------------------------------------------------------------- actions

\* parse_log_file, one turn of the while loop on a line that starts no record
SkipLine ==
  /\ pc = "tokenize"
  /\ i < Len(lines)
  /\ ~Recognized(lines, i)
  /\ i' = i + 1
  /\ UNCHANGED <<lines, payment_type, attempts, origins, pc, start_idx, scan_i,
                 locals, attempt, delegated, outside>>

\* mutant of StartAttempt: the extractor variables are shared by all calls and
\* set up only once
StartAttempt_SharedState ==
  /\ pc = "tokenize"
  /\ i < Len(lines)
  /\ Recognized(lines, i)
  /\ pc' = "scan"
  /\ start_idx' = i
  /\ scan_i' = i
  /\ start_time' = TimestampMatch(Line(i))
  /\ UNCHANGED <<file_name, size_kb, success, address, duration_seconds,
                 duration_found_at, total_chunks, successful_chunk_addresses,
                 all_chunks_already_exist>>
  /\ delegated' = Append(delegated, i)
  /\ UNCHANGED <<lines, payment_type, i, attempts, origins, attempt, outside>>

\* parse_log_file calls parse_upload_attempt, which sets up its variables
StartAttempt ==
  /\ pc = "tokenize"
  /\ i < Len(lines)
  /\ Recognized(lines, i)
  /\ pc' = "scan"
  /\ start_idx' = i
  /\ scan_i' = i
  /\ file_name' = None
  /\ size_kb' = None
  /\ success' = FALSE
  /\ address' = None
  /\ duration_seconds' = None
  /\ duration_found_at' = None
  /\ start_time' = TimestampMatch(Line(i))
  /\ total_chunks' = None
  /\ successful_chunk_addresses' = {}
  /\ all_chunks_already_exist' = FALSE
  /\ delegated' = Append(delegated, i)
  /\ UNCHANGED <<lines, payment_type, i, attempts, origins, attempt, outside>>

\* one turn of the for loop of parse_upload_attempt, on lines[scan_i]
ScanLine ==
  /\ pc = "scan"
  /\ LET line == Line(scan_i)
         fname == NextFileName(file_name, line)
         addr == AfterSecondaryAddress(AfterPrimaryAddress(address, line), fname, line)
         captured == DurationCaptured(duration_seconds, line)
         found_at == IF captured THEN Some(scan_i) ELSE duration_found_at
     IN  IF captured /\ ~FloatParses(ElapsedMatch(line)[1])
           THEN \* float() raises ValueError, which nothing catches
                /\ pc' = "crashed"
                /\ UNCHANGED <<scan_i, locals>>
           ELSE /\ file_name' = fname
                /\ size_kb' = NextSize(size_kb, line)
                /\ address' = addr
                /\ duration_seconds' =
                     IF captured THEN Some(FloatOf(ElapsedMatch(line)[1]))
                     ELSE duration_seconds
                /\ duration_found_at' = found_at
                /\ success' = AfterFailureTest(AfterSuccessTest(success, line), fname, line)
                /\ total_chunks' = NextTotalChunks(total_chunks, payment_type, line)
                /\ successful_chunk_addresses' =
                     NextChunkAddresses(successful_chunk_addresses, line)
                /\ all_chunks_already_exist' =
                     NextAlreadyExist(all_chunks_already_exist, line)
                /\ UNCHANGED start_time
                /\ IF \/ DurationBreak(found_at, scan_i)
                      \/ DividerBreak(scan_i, start_idx, line)
                      \/ scan_i + 1 >= MaxLines(start_idx, Len(lines))
                     THEN pc' = "assemble" /\ UNCHANGED scan_i
                     ELSE pc' = "scan" /\ scan_i' = scan_i + 1
  /\ UNCHANGED <<lines, payment_type, i, attempts, origins, start_idx, attempt,
                 delegated, outside>>

\* parse_upload_attempt, after its loop: the record or None
ReturnAttempt ==
  /\ pc = "assemble"
  /\ attempt' = ReturnValue
  /\ pc' = "returned"
  /\ UNCHANGED <<lines, payment_type, i, attempts, origins, start_idx, scan_i, locals,
                 delegated, outside>>

\* mutant of Collect: the tokenizer goes on behind the window the call scanned
Collect_SkipsWindow ==
  /\ pc = "returned"
  /\ attempts' = IF attempt # None THEN Append(attempts, attempt[1]) ELSE attempts
  /\ origins' = IF attempt # None THEN Append(origins, start_idx) ELSE origins
  /\ i' = scan_i + 1
  /\ pc' = "tokenize"
  /\ UNCHANGED <<lines, payment_type, start_idx, scan_i, locals, attempt,
                 delegated, outside>>

\* parse_log_file, after the call: `if attempt: attempts.append(attempt)`, i += 1
Collect ==
  /\ pc = "returned"
  /\ attempts' = IF attempt # None THEN Append(attempts, attempt[1]) ELSE attempts
  /\ origins' = IF attempt # None THEN Append(origins, start_idx) ELSE origins
  /\ i' = i + 1
  /\ pc' = "tokenize"
  /\ UNCHANGED <<lines, payment_type, start_idx, scan_i, locals, attempt,
                 delegated, outside>>

\* parse_log_file leaves its loop and returns attempts
Finish ==
  /\ pc = "tokenize"
  /\ i >= Len(lines)
  /\ pc' = "done"
  /\ UNCHANGED <<lines, payment_type, i, attempts, origins, start_idx, scan_i,
                 locals, attempt, delegated, outside>>

Next == SkipLine \/ StartAttempt \/ ScanLine \/ ReturnAttempt \/ Collect \/ Finish

\* ------------------------------------------------------------------ main

parse_vars == <<lines, payment_type, i, attempts, origins, start_idx, scan_i,
                locals, attempt, delegated>>

DigitText(d) ==
  CASE d = 0 -> "0" [] d = 1 -> "1" [] d = 2 -> "2" [] d = 3 -> "3" [] d = 4 -> "4"
    [] d = 5 -> "5" [] d = 6 -> "6" [] d = 7 -> "7" [] d = 8 -> "8" [] d = 9 -> "9"

\* str(n) of an f-string, for n >= 0: the decimal digits of n
RECURSIVE IntText(_)
IntText(n) ==
  IF n < 10 THEN <<DigitText(n)>> ELSE IntText(n \div 10) \o <<DigitText(n % 10)>>

\* mutant of FormatChunks: the two counts change places
FormatChunks_TotalFirst(a) ==
  IF a.total_chunks # None /\ a.successful_chunks # None
    THEN IntText(a.total_chunks[1]) \o <<"/">> \o IntText(a.successful_chunks[1])
  ELSE IF a.successful_chunks # None
    THEN IntText(a.successful_chunks[1]) \o <<"/", "?">>
  ELSE <<"N/A">>

\* format_chunks(a)
FormatChunks(a) ==
  IF a.total_chunks # None /\ a.successful_chunks # None
    THEN IntText(a.successful_chunks[1]) \o <<"/">> \o IntText(a.total_chunks[1])
  ELSE IF a.successful_chunks # None
    THEN IntText(a.successful_chunks[1]) \o <<"/", "?">>
  ELSE <<"N/A">>

\* print_successful_uploads_table(attempts): its heading
SuccessfulHeading(as) ==
  IF \E k \in DOMAIN as : as[k].success /\ Truthy(as[k].address)
    THEN "SUCCESSFUL UPLOADS" ELSE "No successful uploads found."

\* main: log_path does not exist
MainNotFound ==
  /\ pc = "main"
  /\ log_file = "missing"
  /\ printed' = Append(printed, "Error: Log file not found")
  /\ exit_status' = Some(1)
  /\ pc' = "exited"
  /\ UNCHANGED <<parse_vars, log_file, chunks, repair_vars>>

\* main: log_path exists; the two lines in front of the call of parse_log_file
MainParse ==
  /\ pc = "main"
  /\ log_file # "missing"
  /\ printed' = printed \o <<"Parsing log file", "Payment type">>
  /\ pc' = "open"
  /\ UNCHANGED <<parse_vars, log_file, exit_status, chunks, repair_vars>>

\* parse_log_file: open() or readlines() raises, which nothing catches
OpenFails ==
  /\ pc = "open"
  /\ log_file = "unreadable"
  /\ pc' = "crashed"
  /\ UNCHANGED <<parse_vars, main_vars, chunks, repair_vars>>

\* parse_log_file: the file is read and the loop set up
ReadLines ==
  /\ pc = "open"
  /\ log_file = "readable"
  /\ attempts' = <<>>
  /\ i' = 0
  /\ pc' = "tokenize"
  /\ UNCHANGED <<lines, payment_type, origins, start_idx, scan_i, locals, attempt,
                 delegated, outside>>

\* an exception leaves main: the interpreter prints the traceback and exits 1
MainUncaught ==
  /\ pc = "crashed"
  /\ printed' = Append(printed, "Traceback")
  /\ exit_status' = Some(1)
  /\ pc' = "exited"
  /\ UNCHANGED <<parse_vars, log_file, chunks, repair_vars>>

\* main: parse_log_file returned an empty list
MainNoAttempts ==
  /\ pc = "done"
  /\ attempts = <<>>
  /\ printed' = Append(printed, "No upload attempts found in log file.")
  /\ exit_status' = Some(0)
  /\ pc' = "exited"
  /\ UNCHANGED <<parse_vars, log_file, chunks, repair_vars>>

\* main: the two tables; print_all_attempts_table calls format_chunks for each
\* attempt in turn, and main returns
MainTables ==
  /\ pc = "done"
  /\ attempts # <<>>
  /\ printed' = printed \o <<SuccessfulHeading(attempts), "UPLOAD ATTEMPTS">>
  /\ chunks' = Some(FormatChunks(attempts[Len(attempts)]))
  /\ exit_status' = Some(0)
  /\ pc' = "exited"
  /\ UNCHANGED <<parse_vars, log_file, repair_vars>>

\* print_all_attempts_table: chunks = format_chunks(attempt), for one attempt
FormatChunksCall ==
  /\ pc = "format"
  /\ chunks' = Some(FormatChunks(attempt[1]))
  /\ pc' = "formatted"
  /\ UNCHANGED <<parse_vars, main_vars, repair_vars>>

NextFormat == FormatChunksCall

NextMain ==
  \/ MainNotFound \/ MainParse \/ OpenFails \/ ReadLines \/ Next
  \/ MainUncaught \/ MainNoAttempts \/ MainTables

\* ---------------------------------------------------------------- inputs

\* log lines, as the upload client writes them
TS1 == "Nov  5 16:05:00"
TS2 == "Nov  5 16:07:30"
L_Banner(ts) == <<ts, " ", DIVIDER>>
L_Divider == <<DIVIDER>>
\* a banner whose timestamp does not stand at the start of the line
L_BannerLate(ts) == <<DIVIDER, " ", ts>>
L_Marker == <<TS1, " ", "Uploading Content">>
L_Name(name) == <<"File/Directory:", " ">> \o name
L_BlankName == <<"File/Directory:", " ">>
L_Size(ds) == <<"Size:", " ">> \o ds \o <<"KB">>
L_Elapsed(text) == <<"Elapsed time:", " ">> \o text \o <<" ", "seconds">>
L_Success(name) == <<"Successfully uploaded", ":", " ">> \o name
L_Failure(name) == <<"Failed", " to upload", " ">> \o name
L_Address(h) == <<"At address:", " ", h>>
L_Pair(base, h) == <<"-", " ", Q>> \o base \o <<Q, ":", " ", Q, h, Q>>
L_Estimated(ds) == <<"Processing estimated total", " ">> \o ds \o <<" ", "chunks">>
L_Starting(ds, ms) ==
  <<"Starting upload of", " ">> \o ds \o <<" ", "chunks", " in", " ">> \o ms
     \o <<" ", "Merkle Tree", "(s)...">>
L_Encrypted(xs, ys) ==
  <<"Encrypted", " ">> \o xs \o <<"/">> \o ys \o <<" ", "chunks", " in", " ", "2", "s">>
\* a line that names the Merkle upload without its counts and reports the
\* encryption count
L_StartingEncrypted ==
  <<"Starting upload of", " ", "chunks", ",", " ", "Merkle Tree", ":", " ">>
     \o L_Encrypted(<<"2">>, <<"3">>)
L_Stored(k, n, h) == <<"(", k, "/", n, ")", " Chunk stored at: ", h>>
L_Retry(h) == <<"Retry succeeded for chunk: ", h>>
L_AlreadyExist ==
  <<"All", " ", "chunks", " already exist on the network", " - ", "nothing to upload">>
\* the marker on a line that also holds a divider
L_MarkerDivider == <<DIVIDER, " ", "Uploading Content">>
\* a duration that float() rejects
L_BadElapsed == L_Elapsed(<<"1", ".", "2", ".", "3">>)
L_Noise == <<TS2, " ", "ok">>
\* one line that carries a size, a duration and a file name
L_Full ==
  L_Size(<<"5">>) \o <<" ">> \o <<"Elapsed time:", " ", "3", " ", "seconds", " ">>
     \o L_Name(<<"a.txt">>)

N_A == <<"a.txt">>
N_B == <<"b.txt">>
N_X == <<"dir", "/", "x.bin">>

\* all sequences over S of length at most n
BoundedSeq(S, n) == UNION {[1..k -> S] : k \in 0..n}

\* the state at the entry of parse_log_file(log, ptype) for a log of Logs
InitWith(Logs, Types) ==
  /\ lines \in Logs
  /\ payment_type \in Types
  /\ i = 0
  /\ attempts = <<>>
  /\ origins = <<>>
  /\ pc = "tokenize"
  /\ start_idx = 0
  /\ scan_i = 0
  /\ file_name = None
  /\ size_kb = None
  /\ success = FALSE
  /\ address = None
  /\ duration_seconds = None
  /\ duration_found_at = None
  /\ start_time = None
  /\ total_chunks = None
  /\ successful_chunk_addresses = {}
  /\ all_chunks_already_exist = FALSE
  /\ attempt = None
  /\ delegated = <<>>
  /\ log_file = "readable"
  /\ printed = <<>>
  /\ exit_status = None
  /\ chunks = None
  /\ repair_files = <<>>
  /\ file_idx = 0
  /\ total_success = 0
  /\ total_failed = 0
  /\ total_success_with_cost = 0
  /\ files_processed = 0
  /\ repair_success = 0 /\ repair_failed = 0 /\ repair_paid = 0

\* Spec: any log of at most MaxLog lines over banners with and without a
\* timestamp, the marker, a full line and an unrelated line
MaxLog == 5
LogLines == {L_Banner(TS1), L_Divider, L_Marker, L_Full, L_Noise}
Init == InitWith(BoundedSeq(LogLines, MaxLog), PAYMENT_TYPES)
Spec == Init /\ [][Next]_vars

\* SpecChunks: one upload section with a file name, a size and a duration,
\* followed by at most MaxChunkBody lines about chunks, in both payment modes
MaxChunkBody == 3
ChunkHead ==
  <<L_Banner(TS1), L_Marker, L_Name(N_X), L_Size(<<"5", "1", "2">>),
    L_Elapsed(<<"1", "2", ".", "5">>)>>
ChunkLines ==
  {L_Estimated(<<"1">>), L_Estimated(<<"3", "0">>),
   L_Starting(<<"1">>, <<"1">>), L_Starting(<<"8", "0">>, <<"2">>),
   L_Encrypted(<<"5", "0">>, <<"5", "0">>), L_Encrypted(<<"2">>, <<"3">>),
   L_StartingEncrypted,
   L_Stored("1", "2", "H64a"), L_Stored("2", "2", "H64b"), L_Retry("H64a"),
   L_AlreadyExist}
InitChunks ==
  InitWith({ChunkHead \o b : b \in BoundedSeq(ChunkLines, MaxChunkBody)}, PAYMENT_TYPES)
SpecChunks == InitChunks /\ [][Next]_vars


\* SpecEmit: one upload section, its banner with a leading timestamp, with
\* none or with one further in the line, followed by at most MaxEmitBody lines
\* that give or fail to give the fields
MaxEmitBody == 4
EmitHeads ==
  {<<L_Banner(TS1), L_Marker>>, <<L_Divider, L_Marker>>, <<L_BannerLate(TS2), L_Marker>>}
EmitLines ==
  {L_Name(N_X), L_BlankName, L_Size(<<"5", "1", "2">>),
   L_Elapsed(<<"1", "2", ".", "5">>), L_BadElapsed, L_Address("abc"),
   L_Estimated(<<"3", "0">>)}
InitEmit ==
  InitWith({h \o b : h \in EmitHeads, b \in BoundedSeq(EmitLines, MaxEmitBody)},
           PAYMENT_TYPES)
SpecEmit == InitEmit /\ [][Next]_vars

\* SpecE2E: a banner with or without a timestamp and the marker, followed by
\* at most MaxE2EBody lines: the four field lines, further banners, markers
MaxE2EBody == 5
E2EHeads == {<<L_Banner(TS1), L_Marker>>, <<L_Divider, L_Marker>>}
E2ELines ==
  {L_Name(<<"x.bin">>), L_Size(<<"5", "1", "2">>), L_Elapsed(<<"1", "2", ".", "5">>),
   L_Address("abc"), L_Banner(TS2), L_Marker}
InitE2E ==
  InitWith({h \o b : h \in E2EHeads, b \in BoundedSeq(E2ELines, MaxE2EBody)},
           {"single-node"})
SpecE2E == InitE2E /\ [][Next]_vars

\* SpecWindow: one upload section with a file name, a size and a success
\* line, followed by at most MaxWindowBody lines: durations, failures, others
MaxWindowBody == 8
WindowHead ==
  <<L_Banner(TS1), L_Marker, L_Name(N_A), L_Size(<<"5">>), L_Success(N_A)>>
WindowLines == {L_Elapsed(<<"3">>), L_Failure(N_A), L_Noise}
InitWindow ==
  InitWith({WindowHead \o b : b \in BoundedSeq(WindowLines, MaxWindowBody)},
           {"single-node"})
SpecWindow == InitWindow /\ [][Next]_vars

\* SpecDivider: a banner and the marker (alone, or on a line with a divider),
\* followed by at most MaxDividerBody lines: banners, markers, field lines
MaxDividerBody == 5
DividerHeads == {<<L_Banner(TS1), L_Marker>>, <<L_Banner(TS1), L_MarkerDivider>>}
DividerLines ==
  {L_Banner(TS2), L_Marker, L_Name(N_A), L_Size(<<"5">>), L_Elapsed(<<"3">>)}
InitDivider ==
  InitWith({h \o b : h \in DividerHeads, b \in BoundedSeq(DividerLines, MaxDividerBody)},
           {"single-node"})
SpecDivider == InitDivider /\ [][Next]_vars

\* SpecFields: a banner and the marker, followed by at most MaxFieldBody
\* lines that give the file name, size, address and duration, each in two ways
MaxFieldBody == 4
FieldHead == <<L_Banner(TS1), L_Marker>>
FieldLines ==
  {L_Name(N_A), L_Name(N_B), L_BlankName, L_Size(<<"5">>), L_Size(<<"5", "1", "2">>),
   L_Address("abc"), L_Address("def"), L_Pair(N_A, "H64a"),
   L_Elapsed(<<"3">>), L_Elapsed(<<"1", "2", ".", "5">>)}
InitFields ==
  InitWith({FieldHead \o b : b \in BoundedSeq(FieldLines, MaxFieldBody)},
           {"merkle"})
SpecFields == InitFields /\ [][Next]_vars

\* SpecSuccess: a banner, the marker and a size, followed by at most
\* MaxSuccessBody lines: the file name, success and failure lines, a duration
MaxSuccessBody == 6
SuccessHead == <<L_Banner(TS1), L_Marker, L_Size(<<"5">>)>>
SuccessLines ==
  {L_Name(N_A), L_Success(N_A), L_Failure(N_A), L_Failure(N_B), L_Elapsed(<<"3">>)}
InitSuccess ==
  InitWith({SuccessHead \o b : b \in BoundedSeq(SuccessLines, MaxSuccessBody)},
           {"merkle"})
SpecSuccess == InitSuccess /\ [][Next]_vars

\* SpecPair: a banner and the marker, followed by at most MaxPairBody lines:
\* a file name with a directory, a blank name, name/address pairs for the
\* file, for another file, for both and for the empty name, an 'At address:'
\* line
MaxPairBody == 5
PairHead == <<L_Banner(TS1), L_Marker>>
\* one line with the pair of another file in front of the pair of this file
L_TwoPairs(b1, h1, b2, h2) == L_Pair(b1, h1) \o <<",", " ", Q>> \o b2 \o <<Q, ":", " ", Q, h2, Q>>
PairLines ==
  {L_Name(N_X), L_BlankName,
   L_Pair(<<"x.bin">>, "H64a"), L_Pair(N_B, "H64b"), L_Pair(<<>>, "H64c"),
   L_TwoPairs(N_B, "H64b", <<"x.bin">>, "H64a"),
   L_Address("abc")}
InitPair ==
  InitWith({PairHead \o b : b \in BoundedSeq(PairLines, MaxPairBody)}, {"merkle"})
SpecPair == InitPair /\ [][Next]_vars

\* SpecMain: a run of main on a path with no file, a file that cannot be
\* read, or a log: the empty log, or a banner with or without a timestamp and
\* the marker, followed by at most MaxMainBody lines
MaxMainBody == 3
FILE_STATES == {"readable", "missing", "unreadable"}
MainHeads == {<<L_Banner(TS1), L_Marker>>, <<L_Divider, L_Marker>>}
MainLines ==
  {L_Full, L_Name(N_A), L_BadElapsed, L_Address("abc"), L_Success(N_A),
   L_Estimated(<<"3", "0">>)}
MainLogs ==
  {<<>>} \cup {h \o b : h \in MainHeads, b \in BoundedSeq(MainLines, MaxMainBody)}
InitMain ==
  /\ log_file \in FILE_STATES
  /\ lines \in (IF log_file = "missing" THEN {<<>>} ELSE MainLogs)
  /\ payment_type \in PAYMENT_TYPES
  /\ pc = "main"
  /\ i = 0
  /\ attempts = <<>>
  /\ origins = <<>>
  /\ start_idx = 0
  /\ scan_i = 0
  /\ file_name = None
  /\ size_kb = None
  /\ success = FALSE
  /\ address = None
  /\ duration_seconds = None
  /\ duration_found_at = None
  /\ start_time = None
  /\ total_chunks = None
  /\ successful_chunk_addresses = {}
  /\ all_chunks_already_exist = FALSE
  /\ attempt = None
  /\ delegated = <<>>
  /\ printed = <<>>
  /\ exit_status = None
  /\ chunks = None
  /\ repair_files = <<>>
  /\ file_idx = 0
  /\ total_success = 0
  /\ total_failed = 0
  /\ total_success_with_cost = 0
  /\ files_processed = 0
  /\ repair_success = 0 /\ repair_failed = 0 /\ repair_paid = 0
SpecMain == InitMain /\ [][NextMain]_vars

\* ------------------------------------ scan_result_tools: repair CSV files

\* A line of a CSV file is a sequence of tokens, "," being the delimiter;
\* quoted fields are not modelled.  A repair file is a record: the pattern of
\* its name, whether it can be opened, and its lines.

\* csv.reader on one line: the cells between the delimiters
RECURSIVE Cells(_)
Cells(text) ==
  LET commas == {k \in DOMAIN text : text[k] = ","}
  IN  IF commas = {} THEN <<text>>
      ELSE LET c == CHOOSE x \in commas : \A y \in commas : x <= y
           IN  <<SubSeq(text, 1, c - 1)>> \o Cells(SubSeq(text, c + 1, Len(text)))

\* csv.reader gives the empty list for an empty line
CsvRow(line) == IF line = <<>> THEN <<>> ELSE Cells(line)

\* str.lower() on a word
LowerToken(t) ==
  CASE t \in {"Success", "SUCCESS"} -> "success"
    [] t \in {"Failed", "FAILED"} -> "failed"
    [] OTHER -> t

\* row[status_column_index].strip().lower()
StatusOf(cell) == [k \in DOMAIN Strip(cell) |-> LowerToken(Strip(cell)[k])]

\* whether float(row[cost_column_index].strip()) returns: the inputs hold
\* digits, dots, blanks and plain words only
CostParses(cell) ==
  /\ Strip(cell) # <<>>
  /\ \A k \in DOMAIN Strip(cell) : Strip(cell)[k] \in DIGITS \cup {"."}
  /\ FloatParses(Strip(cell))

\* cost_paid != 0.0
CostPaid(cell) == FloatOf(Strip(cell)) # <<0, <<>> >>

Max(a, b) == IF a >= b THEN a ELSE b

\* mutant of CountRows: a success row whose cost float() rejects ends the loop
\* and the counts so far are returned
RECURSIVE CountRows_KeepsCounted(_, _, _, _)
CountRows_KeepsCounted(rows, status_column_index, cost_column_index, counts) ==
  IF rows = <<>> THEN Some(counts)
  ELSE LET row == CsvRow(Head(rows))
           rest == Tail(rows)
       IN  IF row = <<>> \/ Len(row) <= Max(status_column_index, cost_column_index)
             THEN CountRows_KeepsCounted(rest, status_column_index, cost_column_index, counts)
           ELSE IF StatusOf(row[status_column_index + 1]) = <<"success">>
             THEN IF ~CostParses(row[cost_column_index + 1])
                    THEN Some(<<counts[1] + 1, counts[2], counts[3]>>)
                  ELSE CountRows_KeepsCounted(rest, status_column_index, cost_column_index,
                                 <<counts[1] + 1, counts[2],
                                   counts[3] + (IF CostPaid(row[cost_column_index + 1])
                                                  THEN 1 ELSE 0)>>)
           ELSE IF StatusOf(row[status_column_index + 1]) = <<"failed">>
             THEN CountRows_KeepsCounted(rest, status_column_index, cost_column_index,
                            <<counts[1], counts[2] + 1, counts[3]>>)
           ELSE CountRows_KeepsCounted(rest, status_column_index, cost_column_index, counts)

\* the loop of count_repair_csv_by_status over the rows left, with the counts
\* so far; None when float() raises, which the function's except clause turns
\* into (None, None, None)
RECURSIVE CountRows(_, _, _, _)
CountRows(rows, status_column_index, cost_column_index, counts) ==
  IF rows = <<>> THEN Some(counts)
  ELSE LET row == CsvRow(Head(rows))
       IN  IF row = <<>> \/ Len(row) <= Max(status_column_index, cost_column_index)
             THEN CountRows(Tail(rows), status_column_index, cost_column_index, counts)
           ELSE IF StatusOf(row[status_column_index + 1]) = <<"success">>
             THEN IF ~CostParses(row[cost_column_index + 1]) THEN None
                  ELSE CountRows(Tail(rows), status_column_index, cost_column_index,
                                 <<counts[1] + 1, counts[2],
                                   counts[3] + (IF CostPaid(row[cost_column_index + 1])
                                                  THEN 1 ELSE 0)>>)
           ELSE IF StatusOf(row[status_column_index + 1]) = <<"failed">>
             THEN CountRows(Tail(rows), status_column_index, cost_column_index,
                            <<counts[1], counts[2] + 1, counts[3]>>)
           ELSE CountRows(Tail(rows), status_column_index, cost_column_index, counts)

\* count_repair_csv_by_status: Some(<<success, failed, paid>>), or None for
\* (None, None, None)
CountRepairCsvByStatus(file, status_column_index, cost_column_index) ==
  IF ~file.readable THEN None
  ELSE CountRows(file.rows, status_column_index, cost_column_index, <<0, 0, 0>>)

\* the column indices count_repair_entries passes for a file of each pattern
StatusColumn(pattern) == IF pattern = "network_scan_repair" THEN 3 ELSE 2
CostColumn(pattern) == IF pattern = "network_scan_repair" THEN 4 ELSE 3

\* count_repair_entries: one turn of one of its two loops
CountNext ==
  /\ pc = "count"
  /\ file_idx < Len(repair_files)
  /\ LET file == repair_files[file_idx + 1]
         counted == CountRepairCsvByStatus(file, StatusColumn(file.pattern),
                                           CostColumn(file.pattern))
     IN  IF counted # None
           THEN /\ total_success' = total_success + counted[1][1]
                /\ total_failed' = total_failed + counted[1][2]
                /\ total_success_with_cost' = total_success_with_cost + counted[1][3]
                /\ files_processed' = files_processed + 1
                /\ printed' = Append(printed, "entries")
           ELSE /\ printed' = Append(printed, "Warning: Could not read")
                /\ UNCHANGED <<total_success, total_failed, total_success_with_cost,
                               files_processed>>
  /\ file_idx' = file_idx + 1
  /\ UNCHANGED <<parse_vars, pc, log_file, exit_status, chunks, repair_files,
                 repair_success, repair_failed, repair_paid>>

\* count_repair_entries: after the loops
CountReturn ==
  /\ pc = "count"
  /\ file_idx = Len(repair_files)
  /\ printed' = IF files_processed = 0
                  THEN Append(printed, "Warning: No repair CSV files found")
                  ELSE printed
  /\ pc' = "counted"
  /\ UNCHANGED <<parse_vars, log_file, exit_status, chunks, repair_vars>>

NextRepair == CountNext \/ CountReturn

\* get_host_summary, the repair files of one host directory: one turn of one
\* of its two loops (the warning is what count_repair_csv_by_status prints)
SummaryNext ==
  /\ pc = "summarize"
  /\ file_idx < Len(repair_files)
  /\ LET file == repair_files[file_idx + 1]
         counted == CountRepairCsvByStatus(file, StatusColumn(file.pattern),
                                           CostColumn(file.pattern))
     IN  IF counted # None
           THEN /\ repair_success' = repair_success + counted[1][1]
                /\ repair_failed' = repair_failed + counted[1][2]
                /\ repair_paid' = repair_paid + counted[1][3]
                /\ UNCHANGED printed
           ELSE /\ printed' = Append(printed, "Warning: Could not read")
                /\ UNCHANGED <<repair_success, repair_failed, repair_paid>>
  /\ file_idx' = file_idx + 1
  /\ UNCHANGED <<parse_vars, pc, log_file, exit_status, chunks, repair_files,
                 total_success, total_failed, total_success_with_cost,
                 files_processed>>

\* get_host_summary: after the loops of the host
SummaryReturn ==
  /\ pc = "summarize"
  /\ file_idx = Len(repair_files)
  /\ pc' = "summarized"
  /\ UNCHANGED <<parse_vars, main_vars, chunks, repair_vars>>

\* the two functions that add up what count_repair_csv_by_status returns
NextTotals == CountNext \/ CountReturn \/ SummaryNext \/ SummaryReturn

\* the variables of the parser, of main and of count_repair_entries at rest
ParserIdle ==
  /\ i = 0 /\ attempts = <<>> /\ origins = <<>> /\ start_idx = 0 /\ scan_i = 0
  /\ file_name = None /\ size_kb = None /\ success = FALSE /\ address = None
  /\ duration_seconds = None /\ duration_found_at = None /\ start_time = None
  /\ total_chunks = None /\ successful_chunk_addresses = {}
  /\ all_chunks_already_exist = FALSE /\ delegated = <<>>
MainIdle == log_file = "readable" /\ printed = <<>> /\ exit_status = None
RepairIdle ==
  /\ repair_files = <<>> /\ file_idx = 0 /\ total_success = 0 /\ total_failed = 0
  /\ total_success_with_cost = 0 /\ files_processed = 0
  /\ repair_success = 0 /\ repair_failed = 0 /\ repair_paid = 0

\* SpecFormat: format_chunks applied to one UploadAttempt whose total_chunks
\* and successful_chunks are, each on its own, absent or a count of at most
\* MaxCount
MaxCount == 12
OptionalCounts == {None} \cup {Some(n) : n \in 0..MaxCount}
InitFormat ==
  /\ attempt \in {Some(UploadAttempt(N_A, 5, succ, None, <<3, <<>> >>, <<TS1>>, total, done)) :
                     succ \in BOOLEAN, total \in OptionalCounts, done \in OptionalCounts}
  /\ pc = "format"
  /\ chunks = None
  /\ lines = <<>>
  /\ payment_type = "single-node"
  /\ ParserIdle /\ MainIdle /\ RepairIdle
SpecFormat == InitFormat /\ [][NextFormat]_vars

\* SpecRepair: count_repair_entries on a testnet directory with one repair
\* file of either pattern, or with a network_scan_repair file and an
\* initial_repair file; a file has at most MaxCsvRows lines
MaxCsvRows == 3
RECURSIVE JoinCells(_)
JoinCells(cells) ==
  IF Len(cells) = 1 THEN cells[1]
  ELSE cells[1] \o <<",">> \o JoinCells(Tail(cells))
\* the cells in front of upload_status
LeadCells(pattern) ==
  IF pattern = "network_scan_repair"
    THEN << <<"t1">>, <<"host">>, <<"H64a">> >>
    ELSE << <<"t1">>, <<"H64a">> >>
CsvLine(pattern, status, cost) ==
  JoinCells(LeadCells(pattern) \o <<status, cost, <<"err">> >>)
CsvLines(pattern) ==
  {CsvLine(pattern, <<"success">>, <<"0", ".", "0">>),
   CsvLine(pattern, <<" ", "Success", " ">>, <<" ", "1", ".", "5">>),
   CsvLine(pattern, <<"FAILED">>, <<>>),
   CsvLine(pattern, <<"upload_status">>, <<"cost_paid">>),
   \* a success row with an empty cost cell
   CsvLine(pattern, <<"success">>, <<>>),
   \* rows with too few columns: the status but no cost, one cell, a blank line
   JoinCells(LeadCells(pattern) \o << <<"success">> >>),
   <<"t1">>,
   <<>>}
RepairFiles(pattern) ==
  {[pattern |-> pattern, readable |-> TRUE, rows |-> r] :
      r \in BoundedSeq(CsvLines(pattern), MaxCsvRows)}
    \cup {[pattern |-> pattern, readable |-> FALSE, rows |-> <<>>]}
FirstFiles ==
  {[pattern |-> "network_scan_repair", readable |-> TRUE,
    rows |-> <<CsvLine("network_scan_repair", <<"success">>, <<"2">>),
               CsvLine("network_scan_repair", <<"failed">>, <<>>)>>],
   [pattern |-> "network_scan_repair", readable |-> TRUE,
    rows |-> <<CsvLine("network_scan_repair", <<"success">>, <<"abc">>)>>]}
InitRepair ==
  /\ repair_files \in
        {<<>>} \cup {<<f>> : f \in RepairFiles("network_scan_repair")
                                   \cup RepairFiles("initial_repair")}
             \cup {<<n, f>> : n \in FirstFiles, f \in RepairFiles("initial_repair")}
  /\ pc = "count"
  /\ file_idx = 0 /\ total_success = 0 /\ total_failed = 0
  /\ total_success_with_cost = 0 /\ files_processed = 0
  /\ repair_success = 0 /\ repair_failed = 0 /\ repair_paid = 0
  /\ lines = <<>> /\ payment_type = "single-node" /\ attempt = None /\ chunks = None
  /\ ParserIdle /\ MainIdle
SpecRepair == InitRepair /\ [][NextRepair]_vars

\* SpecTotals: count_repair_entries or get_host_summary on the repair files
\* of one host: any file of at most MaxTotalRows rows, alone, behind a file of
\* the first pattern (one that counts or one that does not), in front of a
\* file of the second pattern, or between two such files
MaxTotalRows == 3
TotalLines(pattern) ==
  {CsvLine(pattern, <<"success">>, <<"0", ".", "0">>),
   CsvLine(pattern, <<" ", "Success", " ">>, <<" ", "1", ".", "5">>),
   CsvLine(pattern, <<"FAILED">>, <<>>),
   CsvLine(pattern, <<"success">>, <<>>),
   CsvLine(pattern, <<"success">>, <<"abc">>),
   JoinCells(LeadCells(pattern) \o << <<"success">> >>)}
TotalFiles(pattern) ==
  {[pattern |-> pattern, readable |-> TRUE, rows |-> r] :
      r \in BoundedSeq(TotalLines(pattern), MaxTotalRows)}
LastFile ==
  [pattern |-> "initial_repair", readable |-> TRUE,
   rows |-> <<CsvLine("initial_repair", <<"success">>, <<"1", ".", "5">>),
              CsvLine("initial_repair", <<"failed">>, <<>>),
              CsvLine("initial_repair", <<"failed">>, <<>>)>>]
InitTotals ==
  /\ repair_files \in
        {before \o <<f>> \o after :
            before \in {<<>>} \cup {<<n>> : n \in FirstFiles},
            f \in TotalFiles("network_scan_repair") \cup TotalFiles("initial_repair"),
            after \in {<<>>, <<LastFile>>}}
  /\ pc \in {"count", "summarize"}
  /\ file_idx = 0 /\ total_success = 0 /\ total_failed = 0
  /\ total_success_with_cost = 0 /\ files_processed = 0
  /\ repair_success = 0 /\ repair_failed = 0 /\ repair_paid = 0
  /\ lines = <<>> /\ payment_type = "single-node" /\ attempt = None /\ chunks = None
  /\ ParserIdle /\ MainIdle
SpecTotals == InitTotals /\ [][NextTotals]_vars

\* SpecBounds: any log of at most MaxShortLog lines over a banner, the marker,
\* a full line and another line; and logs of a banner and the marker followed
\* by so many other lines that the window of the banner ends with or one line
\* behind the last of them, then at most MaxTail full lines.  The program
\* runs on until parse_log_file returns or raises.
MaxShortLog == 4
MaxTail == 1
L_Pad == <<"ok">>
Pad(n) == [k \in 1..n |-> L_Pad]
LongLogs ==
  {<<L_Banner(TS1), L_Marker>> \o Pad(n) \o t :
      n \in {WINDOW_LINES - 3, WINDOW_LINES - 2}, t \in BoundedSeq({L_Full}, MaxTail)}
ShortLogs == BoundedSeq({L_Banner(TS1), L_Marker, L_Full, L_Noise}, MaxShortLog)
InitBounds == InitWith(ShortLogs \cup LongLogs, {"single-node"})
SpecBounds == InitBounds /\ [][Next]_vars /\ WF_vars(Next)

\* ---------------------------------------------------------------- claims

\* the lines the current (or last) call of parse_upload_attempt has examined,
\* while it runs (pc = "scan": all but scan_i itself) and after it
Window == start_idx..scan_i
InCall == pc \in {"scan", "assemble", "returned"}
AfterLoop == pc \in {"assemble", "returned"}

\* line n holds the banner divider and line n+1 the 'Uploading Content' marker
IsBoundary(n) ==
  /\ n >= 0 /\ n + 1 < Len(lines)
  /\ In(DIVIDER, Line(n))
  /\ In("Uploading Content", Line(n + 1))

\* C3: a line is treated as a record boundary only if it holds the banner
\* divider and the next line holds the 'Uploading Content' marker: every call
\* of parse_upload_attempt starts at such a line, every emitted record comes
\* from such a line, and a log without such a line yields no record.
C3_BoundaryOnlyAtMarkedBanner ==
  /\ InCall => IsBoundary(start_idx)
  /\ Len(origins) = Len(attempts)
  /\ \A k \in DOMAIN origins : IsBoundary(origins[k])
  /\ (\A n \in 0..(Len(lines) - 1) : ~IsBoundary(n)) => attempts = <<>>

\* C3 witness: a finished run that emitted a record although the log also has
\* a divider followed by other text and a divider on its last line
C3_Witness ==
  /\ pc = "done" /\ attempts # <<>>
  /\ \E n \in 0..(Len(lines) - 2) :
        In(DIVIDER, Line(n)) /\ ~In("Uploading Content", Line(n + 1))
  /\ In(DIVIDER, Line(Len(lines) - 1))

\* C2: in every record parse_log_file returns, in either payment mode,
\* successful_chunks, when present, is at most total_chunks.
C2_SuccessfulAtMostTotal ==
  \A k \in DOMAIN attempts :
     attempts[k].successful_chunks # None =>
        /\ attempts[k].total_chunks # None
        /\ attempts[k].successful_chunks[1] <= attempts[k].total_chunks[1]

\* C2 witness: a returned record whose window reported more distinct chunk
\* addresses than its total
C2_Witness ==
  /\ pc = "done" /\ attempts # <<>>
  /\ attempts[1].total_chunks # None
  /\ Cardinality(successful_chunk_addresses) > attempts[1].total_chunks[1]
  /\ ~all_chunks_already_exist
  /\ attempts[1].successful_chunks = attempts[1].total_chunks

\* the examined lines that set the total
Authoritative == {n \in Window : StartingGuard(Line(n)) /\ StartingMatch(Line(n)) # None}
Encrypted == {n \in Window : EncryptedMatch(Line(n)) # None}
Fallback == {n \in Encrypted : ~StartingGuard(Line(n))}
Estimated == {n \in Window : EstimatedMatch(Line(n)) # None}
First(S) == CHOOSE x \in S : \A y \in S : x <= y
Last(S) == CHOOSE x \in S : \A y \in S : y <= x

\* C9 as stated: in merkle mode the total of a window is the N of the last
\* 'Starting upload of N chunks in M Merkle Tree' line scanned, and without
\* such a line the Y of the first 'Encrypted X/Y chunks in' line.
C9_AsStated ==
  (AfterLoop /\ payment_type = "merkle") =>
     /\ Authoritative # {} => total_chunks = StartingMatch(Line(Last(Authoritative)))
     /\ (Authoritative = {} /\ Encrypted # {}) =>
           total_chunks = EncryptedMatch(Line(First(Encrypted)))

\* C9, amended: in merkle mode the total of a window is the N of the last
\* 'Starting upload of N chunks in M Merkle Tree' line scanned, wherever the
\* 'Encrypted X/Y chunks in' lines stand; without such a line it is the Y of
\* the first 'Encrypted X/Y chunks in' line that does not hold both 'Starting
\* upload of' and 'Merkle Tree' (no later line overwrites it), and absent
\* when there is no such line either.
C9_MerkleTotal ==
  (AfterLoop /\ payment_type = "merkle") =>
     /\ Authoritative # {} => total_chunks = StartingMatch(Line(Last(Authoritative)))
     /\ (Authoritative = {} /\ Fallback # {}) =>
           total_chunks = EncryptedMatch(Line(First(Fallback)))
     /\ (Authoritative = {} /\ Fallback = {}) => total_chunks = None

\* C9 witness: fallback lines before and after the authoritative line, with
\* other numbers, and the total is the authoritative one
C9_Witness ==
  /\ pc = "returned" /\ payment_type = "merkle"
  /\ Authoritative # {}
  /\ \E a \in Fallback, b \in Fallback :
        /\ a < Last(Authoritative) /\ Last(Authoritative) < b
        /\ EncryptedMatch(Line(a)) # total_chunks
        /\ EncryptedMatch(Line(b)) # total_chunks
  /\ total_chunks = Some(80)

\* C10: in single-node mode the total of a window is the N of its first
\* 'Processing estimated total N chunks' line, whatever follows, and the lines
\* of merkle mode never set it; in merkle mode the 'Processing estimated
\* total' lines never set it.
C10_SingleNodeTotal ==
  AfterLoop =>
     /\ payment_type = "single-node" =>
           total_chunks = IF Estimated = {} THEN None
                          ELSE EstimatedMatch(Line(First(Estimated)))
     /\ (payment_type = "merkle" /\ Authoritative = {} /\ Fallback = {}) =>
           total_chunks = None

\* C10 witness: single-node mode, two 'Processing estimated total' lines with
\* different numbers and a 'Starting upload of' line; the first number stays
C10_Witness ==
  /\ pc = "returned" /\ payment_type = "single-node"
  /\ Authoritative # {}
  /\ \E a \in Estimated, b \in Estimated :
        a < b /\ EstimatedMatch(Line(a)) # EstimatedMatch(Line(b))
  /\ total_chunks = Some(30)

\* C1 as stated: a record is emitted if and only if file_name, size_kb,
\* duration_seconds and start_time are all present when the scan ends.
C1_AsStated ==
  pc = "returned" =>
     (attempt # None <=>
        /\ file_name # None /\ size_kb # None
        /\ duration_seconds # None /\ start_time # None)

NoElapsedLine == \A n \in Window : ElapsedMatch(Line(n)) = None
NoAddressLine ==
  \A n \in Window :
     /\ AddressMatch(Line(n)) = None
     /\ file_name # None => PairMatch(Line(n), file_name[1]) = None
NoTotalLine ==
  \A n \in Window :
     /\ EstimatedMatch(Line(n)) = None
     /\ StartingMatch(Line(n)) = None
     /\ EncryptedMatch(Line(n)) = None

\* C1, amended: a record is emitted if and only if, when the scan ends,
\* file_name is present and not empty and size_kb, duration_seconds and
\* start_time are present; a window without an elapsed-time line yields no
\* record; a window without an address or a total still yields its record,
\* with that field absent.
C1_EmitIffRequired ==
  pc = "returned" =>
     /\ attempt # None <=>
           /\ file_name # None /\ file_name[1] # <<>>
           /\ size_kb # None /\ duration_seconds # None /\ start_time # None
     /\ NoElapsedLine => attempt = None
     /\ (attempt # None /\ NoAddressLine) => attempt[1].address = None
     /\ (attempt # None /\ NoTotalLine) =>
           /\ attempt[1].total_chunks = None
           /\ attempt[1].successful_chunks = None

\* C1 witness: a record emitted from a window that has neither an address
\* line nor a total line
C1_Witness ==
  /\ pc = "returned" /\ attempt # None
  /\ NoAddressLine /\ NoTotalLine
  /\ attempt[1].address = None /\ attempt[1].total_chunks = None

\* the scenario of C4: two divider lines; the first starts a record and its
\* window holds one file name line (with a name), one size line, one
\* elapsed-time line (with a number) and one address line; the second is not
\* followed by the marker
Dividers == {n \in 0..(Len(lines) - 1) : In(DIVIDER, Line(n))}
NameLineSet == {n \in Window : In("File/Directory:", Line(n))}
ElapsedLineSet == {n \in Window : In("Elapsed time:", Line(n))}
TwoBannerScenario ==
  /\ Cardinality(Dividers) = 2
  /\ IsBoundary(First(Dividers)) /\ ~IsBoundary(Last(Dividers))
  /\ start_idx = First(Dividers)
  /\ Cardinality(NameLineSet) = 1
  /\ \A n \in NameLineSet :
        FileNameMatch(Line(n)) # None /\ FileNameMatch(Line(n)) # Some(<<>>)
  /\ Cardinality({n \in Window : SizeMatch(Line(n)) # None}) = 1
  /\ Cardinality(ElapsedLineSet) = 1
  /\ \A n \in ElapsedLineSet :
        ElapsedMatch(Line(n)) # None /\ FloatParses(ElapsedMatch(Line(n))[1])
  /\ Cardinality({n \in Window : AddressMatch(Line(n)) # None}) = 1

\* C4 as stated: in that scenario parse_log_file returns exactly one record,
\* the one of the first banner.
C4_AsStated ==
  (pc = "done" /\ TwoBannerScenario) =>
     (Len(attempts) = 1 /\ origins = <<First(Dividers)>>)

\* C4, amended: in that scenario, when the first banner line starts with a
\* timestamp, parse_log_file returns exactly one record, the one of the first
\* banner.
C4_EndToEnd ==
  (pc = "done" /\ TwoBannerScenario /\ TimestampMatch(Line(First(Dividers))) # None) =>
     (Len(attempts) = 1 /\ origins = <<First(Dividers)>>)

\* C4 witness: the scenario with a timestamp on the first banner, one record
C4_Witness ==
  /\ pc = "done" /\ TwoBannerScenario
  /\ TimestampMatch(Line(First(Dividers))) # None
  /\ Len(attempts) = 1
  /\ attempts[1].address = Some(<<"abc">>)

\* C5 as stated: once a duration has been captured at line d, no line with
\* an index above d + 5 is examined.
C5_AsStated ==
  (AfterLoop /\ duration_found_at # None) =>
     scan_i <= duration_found_at[1] + POST_DURATION_LINES

\* C5, amended: once a duration has been captured at line d, the scan ends 6
\* lines after it: line d + 6 is still examined by every extractor, and no
\* line with an index above d + 6 is examined.
C5_WindowEndsAfterDuration ==
  (InCall /\ duration_found_at # None) =>
     scan_i <= duration_found_at[1] + POST_DURATION_LINES + 1

\* C5 witness: a scan that ended at line d + 6 with a line left unread, and
\* whose line d + 6, the only failure line, turned the success flag off
C5_Witness ==
  /\ pc = "returned" /\ duration_found_at # None
  /\ scan_i = duration_found_at[1] + POST_DURATION_LINES + 1
  /\ scan_i + 1 < Len(lines)
  /\ {n \in Window : FailureLine(Line(n), file_name)} = {scan_i}
  /\ \E n \in Window : SuccessLine(Line(n))
  /\ attempt # None /\ ~attempt[1].success

\* C6: a divider more than 2 lines after the start of the window ends the
\* window, so no line after the first such divider is examined; a divider 1
\* or 2 lines after the start does not end it (a scan that stops within the
\* first 2 lines has reached the end of the log).
C6_DividerEndsWindow ==
  InCall =>
     /\ \A n \in Window :
           (n > start_idx + BANNER_GRACE_LINES /\ In(DIVIDER, Line(n))) => scan_i <= n
     /\ (AfterLoop /\ scan_i <= start_idx + BANNER_GRACE_LINES) =>
           scan_i + 1 = Len(lines)

\* C6 witness: a window with a divider 1 or 2 lines after its start that was
\* scanned on, ended by a later divider in front of an elapsed-time line, the
\* duration never found
C6_Witness ==
  /\ pc = "returned"
  /\ \E n \in {start_idx + 1, start_idx + 2} : n < scan_i /\ In(DIVIDER, Line(n))
  /\ scan_i > start_idx + BANNER_GRACE_LINES /\ In(DIVIDER, Line(scan_i))
  /\ scan_i + 1 < Len(lines) /\ ElapsedMatch(Line(scan_i + 1)) # None
  /\ file_name # None /\ duration_seconds = None /\ attempt = None

\* C7: within a window file_name, size_kb, address and duration_seconds are
\* set once: no later line of the window changes a value that is set.
C7_FirstWriteWins ==
  [][pc = "scan" =>
        /\ file_name # None => file_name' = file_name
        /\ size_kb # None => size_kb' = size_kb
        /\ address # None => address' = address
        /\ duration_seconds # None => duration_seconds' = duration_seconds]_vars

\* C7 witness: a scanned window in which a later line gives another file
\* name and a later line another size than the ones kept
C7_Witness ==
  /\ pc = "returned"
  /\ \E m \in Window, n \in Window :
        /\ m < n /\ FileNameMatch(Line(m)) = file_name
        /\ FileNameMatch(Line(n)) # None /\ FileNameMatch(Line(n)) # file_name
  /\ \E m \in Window, n \in Window :
        /\ m < n /\ SizeMatch(Line(m)) = size_kb
        /\ SizeMatch(Line(n)) # None /\ SizeMatch(Line(n)) # size_kb

\* line f holds the failure phrase and the file name captured by then
QualifyingFailure(f) ==
  /\ Contains(Line(f), <<"Failed", " to upload">>)
  /\ \E n \in start_idx..f : FileNameMatch(Line(n)) # None
  /\ file_name # None /\ Contains(Line(f), file_name[1])

\* C8 as stated: when a success line is followed by a line with the failure
\* phrase and the captured file name, the emitted record has success false.
C8_AsStated ==
  (/\ pc = "returned" /\ attempt # None
   /\ \E s \in Window, f \in Window :
         s < f /\ SuccessLine(Line(s)) /\ QualifyingFailure(f)) =>
     ~attempt[1].success

\* C8, amended: when a success line is followed by a line with the failure
\* phrase and the captured file name, and no success line comes after that
\* failure line, the emitted record has success false.
C8_FailureOverride ==
  (/\ pc = "returned" /\ attempt # None
   /\ \E s \in Window, f \in Window :
         /\ s < f /\ SuccessLine(Line(s)) /\ QualifyingFailure(f)
         /\ \A t \in Window : t > f => ~SuccessLine(Line(t))) =>
     ~attempt[1].success

\* C8 witness: a record with success false from a window whose success line
\* is followed by a failure line for the captured file
C8_Witness ==
  /\ pc = "returned" /\ attempt # None /\ ~attempt[1].success
  /\ \E s \in Window, f \in Window :
        s < f /\ SuccessLine(Line(s)) /\ QualifyingFailure(f)

\* the chunk addresses that the examined 'Chunk stored at' lines and 'Retry
\* succeeded for chunk' lines report
StoredAddresses == {h \in HEX64 : \E n \in Window : ChunkStoredMatch(Line(n)) = Some(h)}
RetriedAddresses == {h \in HEX64 : \E n \in Window : RetryMatch(Line(n)) = Some(h)}
SeenAddresses == StoredAddresses \cup RetriedAddresses

\* C11: a record whose total is present and whose window set no all-chunks-
\* already-exist flag has successful_chunks = min(number of distinct chunk
\* addresses its 'Chunk stored at' and 'Retry succeeded for chunk' lines
\* report, total_chunks): an address reported by both kinds of line counts
\* once, and more addresses than the total give the total.
C11_DistinctAddressesCapped ==
  (pc = "returned" /\ attempt # None /\ attempt[1].total_chunks # None
     /\ ~all_chunks_already_exist) =>
     attempt[1].successful_chunks =
        Some(Min(Cardinality(SeenAddresses), attempt[1].total_chunks[1]))

\* C11 witness: a stored line and a retry line report the same address, which
\* counts as 1 under a total of 30
C11_Witness ==
  /\ pc = "returned" /\ attempt # None /\ ~all_chunks_already_exist
  /\ StoredAddresses \cap RetriedAddresses # {}
  /\ attempt[1].total_chunks = Some(30)
  /\ attempt[1].successful_chunks = Some(1)

\* the examined lines that hold the 'chunks already exist on the network' /
\* 'nothing to upload' marker
MarkerLines == {n \in Window : AlreadyExistLine(Line(n))}

\* C12: a record whose window holds the 'chunks already exist on the network'
\* / 'nothing to upload' marker line and has a total of N has
\* successful_chunks = N, however many chunk addresses its lines report.
C12_AllChunksExist ==
  (pc = "returned" /\ attempt # None /\ MarkerLines # {}
     /\ attempt[1].total_chunks # None) =>
     attempt[1].successful_chunks = attempt[1].total_chunks

\* C12 witness: the marker line, a total of 30 and no chunk address at all
C12_Witness ==
  /\ pc = "returned" /\ attempt # None /\ MarkerLines # {}
  /\ SeenAddresses = {}
  /\ attempt[1].total_chunks = Some(30)
  /\ attempt[1].successful_chunks = Some(30)

\* the line holds the quoted base name of the file name fname
NamesFile(line, fname) ==
  fname # None /\ Contains(line, <<Q>> \o Basename(fname[1]) \o <<Q>>)
\* the line holds a quoted name followed by a quoted 64-hex address
IsPairLine(line) ==
  \E k \in 1..(Len(line) - 5) :
     /\ SubSeq(line, k, k + 3) = <<Q, ":", " ", Q>>
     /\ line[k + 4] \in HEX64 /\ line[k + 5] = Q
\* a file name line stands at or before line n of the window
NameLineUpTo(n) == \E m \in start_idx..n : In("File/Directory:", Line(m))

LeadingTimestamp(n) == Line(n) # <<>> /\ Line(n)[1] \in TIMESTAMPS

\* C14: all through a call start_time is the timestamp at the start of the
\* banner line (the line at the start index) and absent when that line does
\* not start with one, whatever the later lines of the window are; a record
\* carries that timestamp, and a banner without a leading timestamp yields no
\* record.
C14_StartTimeFromBanner ==
  InCall =>
     /\ start_time = IF LeadingTimestamp(start_idx)
                       THEN Some(<<Line(start_idx)[1]>>) ELSE None
     /\ (pc = "returned" /\ ~LeadingTimestamp(start_idx)) => attempt = None
     /\ (pc = "returned" /\ attempt # None) =>
           attempt[1].start_time = <<Line(start_idx)[1]>>

\* C14 witness: a banner with a timestamp behind the divider only; the window
\* has a later line that starts with another timestamp and gives the file
\* name, the size and the duration, and there is no record
C14_Witness ==
  /\ pc = "returned" /\ ~LeadingTimestamp(start_idx)
  /\ In(TS2, Line(start_idx))
  /\ \E n \in Window : n > start_idx /\ LeadingTimestamp(n) /\ Line(n)[1] = TS1
  /\ Truthy(file_name) /\ size_kb # None /\ duration_seconds # None
  /\ attempt = None

\* a scan of the lines ls on their own: the extractor state of a call that
\* starts at the first line of ls, and its loop from index idx on
FreshState(ls) ==
  [file_name |-> None, size_kb |-> None, success |-> FALSE, address |-> None,
   duration_seconds |-> None, duration_found_at |-> None,
   start_time |-> TimestampMatch(ls[1]), total_chunks |-> None,
   addresses |-> {}, all_exist |-> FALSE]
RECURSIVE ScanFrom(_, _, _, _)
ScanFrom(ls, idx, st, ptype) ==
  LET line == ls[idx + 1]
      fname == NextFileName(st.file_name, line)
      captured == DurationCaptured(st.duration_seconds, line)
      found_at == IF captured THEN Some(idx) ELSE st.duration_found_at
      after ==
        [file_name |-> fname,
         size_kb |-> NextSize(st.size_kb, line),
         success |-> AfterFailureTest(AfterSuccessTest(st.success, line), fname, line),
         address |-> AfterSecondaryAddress(AfterPrimaryAddress(st.address, line),
                                           fname, line),
         duration_seconds |-> IF captured THEN Some(FloatOf(ElapsedMatch(line)[1]))
                              ELSE st.duration_seconds,
         duration_found_at |-> found_at,
         start_time |-> st.start_time,
         total_chunks |-> NextTotalChunks(st.total_chunks, ptype, line),
         addresses |-> NextChunkAddresses(st.addresses, line),
         all_exist |-> NextAlreadyExist(st.all_exist, line)]
  IN  IF \/ DurationBreak(found_at, idx)
         \/ DividerBreak(idx, 0, line)
         \/ idx + 1 >= MaxLines(0, Len(ls))
        THEN after
        ELSE ScanFrom(ls, idx + 1, after, ptype)
\* what a scan of the lines from line n on, on their own, returns
ScanAlone(n, ptype) ==
  LET ls == SubSeq(lines, n + 1, Len(lines))
      st == ScanFrom(ls, 0, FreshState(ls), ptype)
  IN  IF Complete(st.file_name, st.size_kb, st.duration_seconds, st.start_time)
        THEN Some(UploadAttempt(st.file_name[1], st.size_kb[1], st.success, st.address,
                                st.duration_seconds[1], st.start_time[1], st.total_chunks,
                                SuccessfulChunks(st.total_chunks, st.all_exist,
                                                 st.addresses)))
        ELSE None

\* C15: what a call of parse_upload_attempt returns for a banner, and each
\* record parse_log_file has collected, is what a scan of the lines from that
\* banner on gives on their own, with the same mode and from a fresh extractor
\* state: it is a function of those lines and the mode only, so that a second
\* scan gives the same result and neither the earlier windows nor the lines in
\* front of the banner have a part in it.
C15_WindowsIndependent ==
  /\ pc = "returned" => attempt = ScanAlone(start_idx, payment_type)
  /\ \A k \in DOMAIN attempts :
        Some(attempts[k]) = ScanAlone(origins[k], payment_type)

\* C15 witness: a banner inside the window of an earlier banner that gave a
\* record; the lines both windows scanned give no file name, size or duration
\* to the later one, which returns no record
C15_Witness ==
  /\ pc = "returned" /\ start_idx > 0 /\ attempt = None
  /\ Len(attempts) = 1 /\ origins[1] < start_idx
  /\ \E n \in origins[1]..(start_idx - 1) : FileNameMatch(Line(n)) # None
  /\ ScanAlone(origins[1], payment_type) # None

Printed(text) == \E k \in DOMAIN printed : printed[k] = text
TablePrinted == Printed("UPLOAD ATTEMPTS") \/ Printed("SUCCESSFUL UPLOADS")

\* C16 as stated: a run on a missing or unreadable file reports the error,
\* ends with a non-zero status and prints no table; a run on a readable log
\* never fails, whatever its windows lack: no exception leaves
\* parse_log_file, the status is 0, and a log without attempts is reported as
\* such.
C16_AsStated ==
  /\ (pc = "exited" /\ log_file # "readable") =>
        /\ exit_status # None /\ exit_status # Some(0)
        /\ Printed("Error: Log file not found") \/ Printed("Traceback")
        /\ ~TablePrinted
  /\ log_file = "readable" => pc # "crashed"
  /\ (pc = "exited" /\ log_file = "readable") =>
        /\ exit_status = Some(0)
        /\ attempts = <<>> =>
              Printed("No upload attempts found in log file.") /\ ~TablePrinted

\* the text is <digits of a>/<digits of b>
IsRatio(text, a, b) ==
  \E k \in DOMAIN text :
     /\ text[k] = "/"
     /\ k > 1 /\ k < Len(text)
     /\ \A j \in DOMAIN text : j # k => text[j] \in DIGITS
     /\ IntOf(SubSeq(text, 1, k - 1)) = a
     /\ IntOf(SubSeq(text, k + 1, Len(text))) = b

FullRows(file) ==
  {k \in DOMAIN file.rows : Len(CsvRow(file.rows[k])) > CostColumn(file.pattern)}
RowsWithStatus(file, word) ==
  {k \in FullRows(file) :
      StatusOf(CsvRow(file.rows[k])[StatusColumn(file.pattern) + 1]) = <<word>>}
RECURSIVE SumRows(_, _)
SumRows(files, word) ==
  IF files = <<>> THEN 0
  ELSE (IF Head(files).readable THEN Cardinality(RowsWithStatus(Head(files), word)) ELSE 0)
         + SumRows(Tail(files), word)

\* C18 as stated: count_repair_entries skips the rows with too few columns
\* for the pattern of their file and counts all other rows of each file it
\* can open: the totals are the numbers of rows with enough columns whose
\* trimmed, lower-cased status is 'success' and 'failed'.
C18_AsStated ==
  pc = "counted" =>
     /\ total_success = SumRows(repair_files, "success")
     /\ total_failed = SumRows(repair_files, "failed")
     /\ files_processed = Cardinality({k \in DOMAIN repair_files : repair_files[k].readable})

Increasing(seq) == \A a \in DOMAIN seq, b \in DOMAIN seq : a < b => seq[a] < seq[b]
Elements(seq) == {seq[k] : k \in DOMAIN seq}
\* the banner lines followed by the marker, below index n
BoundariesBelow(n) == {m \in 0..(n - 1) : IsBoundary(m)}

\* C19: the calls of parse_upload_attempt made so far are, in increasing
\* order and once each, the banner lines followed by the marker that the
\* tokenizer has reached, those inside a window already scanned included (at
\* the end of the run: all of them); after a call the tokenizer goes on with
\* the line after the banner; and the records are in increasing order of
\* their banner, each from a call, so at most one per banner.
C19_EveryBannerDelegatedOnce ==
  /\ [](pc \in {"tokenize", "scan", "assemble", "returned", "done"} =>
          /\ Increasing(delegated)
          /\ Elements(delegated) =
                BoundariesBelow(IF InCall THEN i + 1 ELSE i)
          /\ InCall => start_idx = i
          /\ pc = "done" => i = Len(lines)
          /\ Increasing(origins)
          /\ Elements(origins) \subseteq Elements(delegated)
          /\ Len(origins) = Len(attempts))
  /\ [][pc = "returned" => i' = start_idx + 1]_vars

\* C19 witness: a finished run with two calls, the second for a banner two
\* lines after the first and inside its window, and a record from each
C19_Witness ==
  /\ pc = "done"
  /\ Len(delegated) = 2 /\ delegated[2] = delegated[1] + 2
  /\ origins = delegated
  /\ \E n \in 0..(Len(lines) - 1) : n > delegated[2] /\ FileNameMatch(Line(n)) # None

\* the end of the window of the call in progress
WindowEnd == Min(start_idx + WINDOW_LINES, Len(lines))

\* a bound on the number of steps parse_log_file still takes: at most
\* WINDOW_LINES + 3 for the call in progress, and as many again, plus one,
\* for every line the tokenizer has not passed
StepsLeft ==
  LET perLine == WINDOW_LINES + 4
      behind == (Len(lines) - i - 1) * perLine
  IN  CASE pc = "tokenize" -> (Len(lines) - i) * perLine + 1
        [] pc = "scan" -> behind + 4 + (WindowEnd - scan_i)
        [] pc = "assemble" -> behind + 3
        [] pc = "returned" -> behind + 2
        [] OTHER -> 0

\* the guard of a step holds until parse_log_file has returned or raised: the
\* while loop either has a line to look at or ends, the for loop has the line
\* it reads, and the end of a call and its return to the loop wait for nothing
CanGoOn ==
  \/ pc = "tokenize" /\ (i < Len(lines) \/ i >= Len(lines))
  \/ pc = "scan" /\ scan_i >= 0 /\ scan_i < Len(lines)
  \/ pc \in {"assemble", "returned"}
  \/ pc \in {"done", "crashed"}

\* C20: parse_log_file terminates on every finite log (it returns, or an
\* exception ends it): until then a step is possible and every step lowers
\* a bound on the steps left, which is never negative; the tokenizer index
\* never decreases and grows by one on every turn of its loop; a call
\* examines only lines with an index from its start on and below
\* min(start + 10000, number of lines); and every index used is below the
\* number of lines, also for a banner on the last line and for a window the
\* end of the log cuts.
C20_TerminatesWithinBounds ==
  /\ [](/\ i >= 0 /\ i <= Len(lines)
        /\ InCall => /\ i < Len(lines) /\ start_idx = i
                     /\ start_idx <= scan_i /\ scan_i < WindowEnd
                     /\ scan_i < Len(lines)
        /\ StepsLeft >= 0
        /\ CanGoOn)
  /\ [][/\ StepsLeft' < StepsLeft
        /\ i' >= i
        /\ (pc = "returned" \/ (pc = "tokenize" /\ pc' = "tokenize")) => i' = i + 1
        /\ (pc = "scan" /\ pc' = "scan") => scan_i' = scan_i + 1]_vars

\* C20 witness: parse_log_file has returned on a log whose last line is a
\* banner line with nothing behind it, after a call whose window the end of
\* the log cut short of 10000 lines
C20_Witness ==
  /\ pc = "done"
  /\ i = Len(lines)
  /\ delegated # <<>>
  /\ delegated[Len(delegated)] + WINDOW_LINES > Len(lines)
  /\ In(DIVIDER, Line(Len(lines) - 1))
  /\ ~Recognized(lines, Len(lines) - 1)

\* line n is a success line: 'Successfully uploaded' without 'Failed'
SuccessSignal(n) == SuccessLine(Line(n))

\* line n holds the failure phrase but no file name was captured up to it
EarlyFailure(n) ==
  /\ Contains(Line(n), <<"Failed", " to upload">>)
  /\ \A m \in start_idx..n : FileNameMatch(Line(m)) = None

\* C21: the success flag of a record follows the last signal scanned in the
\* window: it is true exactly when the window has a success line with no
\* qualifying failure line (the failure phrase and the file name captured by
\* then) after it; so a success line after a failure line makes it true again,
\* and the scan of a failure line before any file name is captured leaves the
\* flag as it was.
C21_LastSignalDecides ==
  /\ []((pc = "returned" /\ attempt # None) =>
          (attempt[1].success <=>
             \E s \in Window :
                /\ SuccessSignal(s)
                /\ \A f \in Window : f > s => ~QualifyingFailure(f)))
  /\ [][(pc = "scan" /\ EarlyFailure(scan_i)) => success' = success]_vars

\* C21 witness: a record with success true from a window with a success line,
\* then a failure line naming the file before the file name is captured, then
\* the file name, a qualifying failure line and one more success line
C21_Witness ==
  /\ pc = "returned" /\ attempt # None /\ attempt[1].success
  /\ \E s \in Window, e \in Window, f \in Window, t \in Window :
        /\ s < e /\ e < f /\ f < t
        /\ SuccessSignal(s) /\ EarlyFailure(e)
        /\ Contains(Line(e), file_name[1])
        /\ QualifyingFailure(f) /\ SuccessSignal(t)

\* a row of the file has enough columns, the status 'success' and a cost that
\* float() rejects
HasBadCost(file) ==
  \E k \in RowsWithStatus(file, "success") :
     ~CostParses(CsvRow(file.rows[k])[CostColumn(file.pattern) + 1])
\* the rows with status 'success' whose cost is a number other than zero
PaidRows(file) ==
  {k \in RowsWithStatus(file, "success") :
      LET cell == CsvRow(file.rows[k])[CostColumn(file.pattern) + 1]
      IN  CostParses(cell) /\ CostPaid(cell)}
\* the rows of the given kind in the files that have no such row, which are
\* the files that count
RECURSIVE SumCounted(_, _)
SumCounted(files, kind) ==
  IF files = <<>> THEN 0
  ELSE (IF HasBadCost(Head(files)) THEN 0
        ELSE IF kind = "paid" THEN Cardinality(PaidRows(Head(files)))
        ELSE Cardinality(RowsWithStatus(Head(files), kind)))
         + SumCounted(Tail(files), kind)
CountedFiles(files) == {k \in DOMAIN files : ~HasBadCost(files[k])}
ReturnedFor(file) ==
  CountRepairCsvByStatus(file, StatusColumn(file.pattern), CostColumn(file.pattern))

====
